---- MODULE Spec2Model ----
(***************************************************************************)
(* Model of the NUI message bridge (NuiProvider) and of the rate limit     *)
(* coordinator (useRateLimit) of fivem-react-template.                     *)
(*                                                                         *)
(* Spec       : one coordinator instance watching WatchedId, mounted       *)
(*              under a mounted provider; host replies for WatchedId and   *)
(*              for OtherId arrive through the shared response map.        *)
(* SpecBridge : the provider's own life cycle: mount, teardown, key        *)
(*              presses, hideFrame, sendMessage calls and their outcomes.  *)
(***************************************************************************)
EXTENDS Integers, Sequences, FiniteSets, TLC

\* ------------------------------------------------------------------ bounds
\* Last instant of the clock (the clock starts at Cooldown, see Init).
MaxTime == 5
\* Cap on the number of checkRateLimit host calls one behaviour issues.
MaxCalls == 2
\* Cap on the number of bridge calls (uiReady, hideFrame) in flight.
MaxBridgeCalls == 2
\* Hook arguments, scaled from milliseconds to clock ticks.
Cooldown == 2
MessageDuration == 2

\* --------------------------------------------------------------- constants
WatchedId == "open_stash"
OtherId == "other_action"
Ids == {WatchedId, OtherId}

Null == "null"
NullRef == 0
\* Before every instant of the clock: no such time yet.
NoTime == 0 - 1
DenialMessage(id) == "Action [" \o id \o "] is rate limited. Please wait."

Keys == {"Escape", "Enter", "a"}

VARIABLES
    \* --- environment
    now,                 \* Date.now()
    timers,              \* pending setTimeout callbacks: records [h, due]
    \* --- stores (process-wide)
    lastActionTimes,     \* rateLimitStore: id -> timestamp (partial)
    rateLimitResponses,  \* nui store: id -> allowed (partial)
    visible,             \* nui store: visibility of the frame
    uiReady,             \* nui store: set by setUiReady
    \* --- coordinator instance (useRateLimit)
    mounted,
    isRateLimited,
    rateLimitMessage,
    messageTimeoutRef,
    effectPending,       \* the response effect is scheduled (deps changed)
    pendingCalls,        \* performAction calls awaiting sendMessage
    \* --- provider (NuiProvider)
    providerMounted,
    messageListeners,    \* window 'message' listeners (as a sequence)
    keydownListeners,    \* window 'keydown' listeners
    bridgeCalls,         \* uiReady / hideFrame fetches in flight
    dev,                 \* import.meta.env.DEV
    \* --- observation
    nHostCalls,          \* checkRateLimit calls issued so far
    nActionFn,           \* actionFn invocations so far
    lastCallAt,          \* time of the latest performAction call
    allowedSinceCall,    \* an allowed reply was processed since that call
    lastFnAt,            \* time of the latest actionFn invocation
    replyFresh,          \* a reply for WatchedId awaits its processing
    denialShownAt,       \* time a fresh host denial was displayed
    messageShownAt,      \* time of the most recent display of the message
    unconsumed,          \* the stored reply has not yet caused a reaction
                         \* in the mounted instance
    arrivedUnobserved,   \* the stored reply arrived with no instance mounted
    ev                   \* the step that led to this state

coordVars == <<mounted, isRateLimited, rateLimitMessage, messageTimeoutRef,
               effectPending, pendingCalls>>
providerVars == <<providerMounted, messageListeners, keydownListeners,
                  bridgeCalls, dev>>
storeVars == <<lastActionTimes, rateLimitResponses, visible, uiReady>>
obsVars == <<nHostCalls, nActionFn, lastCallAt, allowedSinceCall, lastFnAt,
             replyFresh, denialShownAt, messageShownAt, unconsumed,
             arrivedUnobserved>>
vars == <<now, timers, storeVars, coordVars, providerVars, obsVars, ev>>

\* ------------------------------------------------------------------ stores
\* rateLimitStore.getLastActionTime: the stored timestamp, 0 when none.
GetLastActionTime(id) ==
    IF id \in DOMAIN lastActionTimes THEN lastActionTimes[id] ELSE 0

\* rateLimitStore.setLastActionTime
SetLastActionTime(id, t) ==
    [x \in DOMAIN lastActionTimes \cup {id} |->
        IF x = id THEN t ELSE lastActionTimes[x]]

\* nui store: a host reply replaces the response map by a new map in which
\* the entry of id is overwritten.
StoreReply(id, allowed) ==
    [x \in DOMAIN rateLimitResponses \cup {id} |->
        IF x = id THEN allowed ELSE rateLimitResponses[x]]

\* ------------------------------------------------------------------ timers
ClearTimeout(h, ts) == {t \in ts : t.h # h}

NewHandle(ts, ref) ==
    CHOOSE h \in 1..(Cardinality(ts) + 2) : h # ref /\ \A t \in ts : t.h # h

\* Faulty variant: no timer is started.
SetTimeoutNotStarted(ts, h, delay) == ts

SetTimeout(ts, h, delay) == ts \cup {[h |-> h, due |-> now + delay]}

\* if (messageTimeoutRef.current) clearTimeout(messageTimeoutRef.current)
ClearMessageTimeout ==
    IF messageTimeoutRef # NullRef
    THEN ClearTimeout(messageTimeoutRef, timers)
    ELSE timers

\* ------------------------------------------------------- host call (fetch)
\* What the host can answer to one POST: the fetch rejects, or it yields a
\* response with a status (ok = 2xx) and a body.
JsonBodies == {"{}", "null"}
Bodies == JsonBodies \cup {"ok"}
FetchOutcomes ==
    [rejects : {TRUE}, ok : {FALSE}, body : {""}, bodyUsed : {FALSE}]
    \cup [rejects : {FALSE}, ok : {FALSE}, body : {""}, bodyUsed : {FALSE}]
    \cup [rejects : {FALSE}, ok : {TRUE}, body : Bodies, bodyUsed : {FALSE}]

Return(v) == [kind |-> "return", value |-> v]
Throw(e) == [kind |-> "throw", value |-> e]

\* JSON.parse of a body that is valid JSON.
JsonParse(body) == IF body = "null" THEN Null ELSE "<object " \o body \o ">"

\* Reading a body marks the response's stream as used.
Consume(resp) == [resp EXCEPT !.bodyUsed = TRUE]

\* resp.json(): rejects on a used body; reads the body; rejects when the
\* text is not JSON.
RespJson(resp) ==
    IF resp.bodyUsed THEN Throw("TypeError: body stream already read")
    ELSE IF resp.body \in JsonBodies THEN Return(JsonParse(resp.body))
    ELSE Throw("SyntaxError")

\* resp.text(): rejects on a used body; the raw text otherwise.
RespText(resp) ==
    IF resp.bodyUsed THEN Throw("TypeError: body stream already read")
    ELSE Return(resp.body)

\* try { return await resp.json() } catch (e) { return await resp.text() }
ParseBody(resp) ==
    LET j == RespJson(resp)
    IN  IF j.kind = "return" THEN j ELSE RespText(Consume(resp))

\* The body of the outer try block, given what the fetch does.
TryBody(outcome) ==
    IF outcome.rejects THEN Throw("NetworkError")
    ELSE IF ~outcome.ok THEN Return(Null)
    ELSE ParseBody(outcome)

\* Faulty variant: the outer catch is missing: the error reaches the caller.
OuterCatchRethrows(r) == r

\* catch (err) { console.error(...); return null }
OuterCatch(r) == IF r.kind = "throw" THEN Return(Null) ELSE r

\* What sendMessage settles to, given what the fetch does.
SendMessage(outcome) == OuterCatch(TryBody(outcome))

\* typeof event === 'string' ? event : 'unknownEvent'
EventName(event) == IF event \in STRING THEN event ELSE "unknownEvent"

\* The POST that sendMessage(event, data) issues.
FetchCall(event, data) == [event |-> EventName(event), data |-> data]
NoData == <<>>

\* Faulty variant: the previous timer is not cancelled.
ShowMessageNoCancel(msg) ==
    LET h == NewHandle(timers, messageTimeoutRef)
    IN  /\ rateLimitMessage' = msg
        /\ messageTimeoutRef' = h
        /\ timers' = SetTimeout(timers, h, MessageDuration)

\* ------------------------------------------------- rate limit coordinator
\* showMessage(msg): display msg, cancel the previous auto-clear timer and
\* start a new one.
ShowMessage(msg) ==
    LET h == NewHandle(timers, messageTimeoutRef)
    IN  /\ rateLimitMessage' = msg
        /\ messageTimeoutRef' = h
        /\ timers' = SetTimeout(ClearMessageTimeout, h, MessageDuration)

\* Faulty variant: the message is cleared but its timer keeps running.
ClearMessageKeepsTimer ==
    /\ rateLimitMessage' = Null
    /\ UNCHANGED <<timers, messageTimeoutRef>>

\* setRateLimitMessage(null); if (ref.current) clearTimeout(ref.current)
ClearMessage ==
    /\ rateLimitMessage' = Null
    /\ timers' = ClearMessageTimeout
    /\ UNCHANGED messageTimeoutRef

\* Faulty variant: the check is off by one tick.
LocallyLimitedOffByOne(t, lastActionTime) ==
    t - lastActionTime < Cooldown - 1

\* Faulty variant: the check also denies while the flag is set.
LocallyLimitedOrFlagged(t, lastActionTime) ==
    isRateLimited \/ t - lastActionTime < Cooldown

\* The local cooldown check of performAction.
LocallyLimited(t, lastActionTime) == t - lastActionTime < Cooldown

\* The payload of the checkRateLimit call.
CheckPayload(id) == [actionId |-> id, cooldown |-> Cooldown]

\* Faulty variant: actionFn runs only when the host call produced a result.
ActionFnRunsOnResult(r) == r.kind = "return" /\ r.value # Null

\* Whether performAction goes on to call actionFn once sendMessage settled
\* with r: it does whenever the await returns, whatever the value.
ActionFnRuns(r) == r.kind = "return"

\* Faulty variant: the allowed branch forgets to cancel the pending timer.
EffectAllowedKeepTimer ==
    /\ lastActionTimes' = SetLastActionTime(WatchedId, now)
    /\ rateLimitMessage' = Null
    /\ UNCHANGED <<timers, messageTimeoutRef>>

\* The allowed branch of the response effect: setLastActionTime(id,
\* Date.now()); setRateLimitMessage(null); clearTimeout(ref.current).
EffectAllowed ==
    /\ lastActionTimes' = SetLastActionTime(WatchedId, now)
    /\ rateLimitMessage' = Null
    /\ timers' = ClearMessageTimeout
    /\ UNCHANGED messageTimeoutRef

\* The denied branch of the response effect.
EffectDenied ==
    /\ ShowMessage(DenialMessage(WatchedId))
    /\ UNCHANGED lastActionTimes

\* The coordinator is mounted: initial state, and the effects run.
Mount ==
    /\ providerMounted
    /\ ~mounted
    /\ mounted' = TRUE
    /\ isRateLimited' = FALSE
    /\ rateLimitMessage' = Null
    /\ messageTimeoutRef' = NullRef
    /\ effectPending' = TRUE
    /\ unconsumed' = (WatchedId \in DOMAIN rateLimitResponses)
    /\ ev' = [op |-> "mount"]
    /\ UNCHANGED <<now, timers, storeVars, pendingCalls, providerVars,
                   nHostCalls, nActionFn, lastCallAt, allowedSinceCall,
                   lastFnAt, replyFresh, denialShownAt, messageShownAt,
                   arrivedUnobserved>>

\* Faulty variant: the cleanup leaves the timer running.
CleanupKeepsTimer == timers

\* The cleanup of the unmount effect.
Cleanup == ClearMessageTimeout

\* The coordinator is unmounted: the cleanup runs, the instance's state is
\* dropped; its calls in flight stay in flight.
Unmount ==
    /\ mounted
    /\ mounted' = FALSE
    /\ timers' = Cleanup
    /\ isRateLimited' = FALSE
    /\ rateLimitMessage' = Null
    /\ messageTimeoutRef' = NullRef
    /\ effectPending' = FALSE
    /\ denialShownAt' = NoTime
    /\ messageShownAt' = NoTime
    /\ unconsumed' = FALSE
    /\ ev' = [op |-> "unmount", hadTimer |-> timers # {}]
    /\ UNCHANGED <<now, storeVars, pendingCalls, providerVars, nHostCalls,
                   nActionFn, lastCallAt, allowedSinceCall, lastFnAt,
                   replyFresh, arrivedUnobserved>>

\* Faulty variant: the flag is set by a denial and never reset.
RateLimitedAfterSticky(allowed) == isRateLimited \/ ~allowed

\* setIsRateLimited(!allowed)
RateLimitedAfter(allowed) == ~allowed

\* The effect on [id, rateLimitResponses, setLastActionTime].
ResponseEffect ==
    /\ mounted
    /\ effectPending
    /\ effectPending' = FALSE
    /\ IF WatchedId \in DOMAIN rateLimitResponses
       THEN LET allowed == rateLimitResponses[WatchedId]
            IN  /\ isRateLimited' = RateLimitedAfter(allowed)
                /\ IF allowed THEN EffectAllowed ELSE EffectDenied
                /\ allowedSinceCall' = (allowedSinceCall \/ allowed)
                /\ denialShownAt' =
                       IF replyFresh
                       THEN (IF allowed THEN NoTime ELSE now)
                       ELSE denialShownAt
                /\ messageShownAt' = IF allowed THEN NoTime ELSE now
                /\ ev' = [op |-> "effect", allowed |-> allowed,
                          fresh |-> replyFresh, hadTimer |-> timers # {}]
       ELSE /\ ev' = [op |-> "effect-none"]
            /\ UNCHANGED <<isRateLimited, rateLimitMessage, messageTimeoutRef,
                           timers, lastActionTimes, allowedSinceCall,
                           denialShownAt, messageShownAt>>
    /\ replyFresh' = FALSE
    /\ unconsumed' = FALSE
    /\ UNCHANGED <<now, rateLimitResponses, visible, uiReady, mounted,
                   pendingCalls, providerVars, nHostCalls, nActionFn,
                   lastCallAt, lastFnAt, arrivedUnobserved>>

\* performAction(actionFn), up to the await of sendMessage.
PerformAction ==
    /\ mounted
    /\ LET lastActionTime == GetLastActionTime(WatchedId)
       IN  IF LocallyLimited(now, lastActionTime)
           THEN /\ ShowMessage(DenialMessage(WatchedId))
                /\ messageShownAt' = now
                /\ ev' = [op |-> "performAction", denied |-> TRUE]
                /\ UNCHANGED <<pendingCalls, nHostCalls>>
           ELSE /\ nHostCalls < MaxCalls
                /\ ClearMessage
                /\ pendingCalls' = Append(pendingCalls,
                       FetchCall("checkRateLimit", CheckPayload(WatchedId)))
                /\ nHostCalls' = nHostCalls + 1
                /\ messageShownAt' = NoTime
                /\ ev' = [op |-> "performAction", denied |-> FALSE,
                          cleared |-> rateLimitMessage # Null]
    /\ lastCallAt' = now
    /\ allowedSinceCall' = FALSE
    /\ denialShownAt' = NoTime
    /\ UNCHANGED <<now, storeVars, mounted, isRateLimited, effectPending,
                   providerVars, nActionFn, lastFnAt, replyFresh, unconsumed,
                   arrivedUnobserved>>

\* The fetch of a pending checkRateLimit call settles with outcome o:
\* sendMessage settles, performAction resumes and calls actionFn.
CompleteCheck(o) ==
    /\ pendingCalls # <<>>
    /\ LET r == SendMessage(o)
       IN  /\ pendingCalls' = Tail(pendingCalls)
           /\ nActionFn' = IF ActionFnRuns(r) THEN nActionFn + 1 ELSE nActionFn
           /\ lastFnAt' = IF ActionFnRuns(r) THEN now ELSE lastFnAt
           /\ ev' = [op |-> "complete", call |-> Head(pendingCalls),
                     outcome |-> o, result |-> r]
    /\ UNCHANGED <<now, timers, storeVars, mounted, isRateLimited,
                   rateLimitMessage, messageTimeoutRef, effectPending,
                   providerVars, nHostCalls, lastCallAt, allowedSinceCall,
                   replyFresh, denialShownAt, messageShownAt, unconsumed,
                   arrivedUnobserved>>

\* handleNuiMessage for a rate limit reply: the store replaces the response
\* map; every mounted subscriber re-renders and its effect is scheduled.
HandleNuiMessage(id, allowed) ==
    /\ rateLimitResponses' = StoreReply(id, allowed)
    /\ effectPending' = mounted

\* The host posts a rate limit reply to the window.
HostReply(id, allowed) ==
    /\ id = WatchedId => nHostCalls > 0
    /\ IF Len(messageListeners) > 0
       THEN /\ HandleNuiMessage(id, allowed)
            /\ replyFresh' = (replyFresh \/ id = WatchedId)
            /\ unconsumed' = (unconsumed \/ (id = WatchedId /\ mounted))
            /\ arrivedUnobserved' =
                   IF id = WatchedId THEN ~mounted ELSE arrivedUnobserved
       ELSE UNCHANGED <<rateLimitResponses, effectPending, replyFresh,
                        unconsumed, arrivedUnobserved>>
    /\ ev' = [op |-> "hostReply", id |-> id, allowed |-> allowed]
    /\ UNCHANGED <<now, timers, lastActionTimes, visible, uiReady, mounted,
                   isRateLimited, rateLimitMessage, messageTimeoutRef,
                   pendingCalls, providerVars, nHostCalls, nActionFn,
                   lastCallAt, allowedSinceCall, lastFnAt, denialShownAt,
                   messageShownAt>>

\* ---------------------------------------------------------- NuiProvider
\* window.addEventListener: a listener already registered is not added
\* again.
AddEventListener(ls, f) ==
    IF \E i \in 1..Len(ls) : ls[i] = f THEN ls ELSE Append(ls, f)

\* window.removeEventListener
RemoveEventListener(ls, f) == SelectSeq(ls, LAMBDA x : x # f)

\* Faulty variant: the teardown leaves the message listener registered.
MessageCleanupKeepsListener == messageListeners

\* The cleanup of the mount effect.
MessageCleanup == RemoveEventListener(messageListeners, "handleNuiMessage")

\* Faulty variant: every key hides the frame.
EscapePressedAnyKey(key) == TRUE

\* if (event.key === 'Escape')
EscapePressed(key) == key = "Escape"

\* hideFrame(), called n times in a row.
HideFrame(n) ==
    IF dev
    THEN /\ visible' = (IF n > 0 THEN FALSE ELSE visible)
         /\ UNCHANGED bridgeCalls
    ELSE /\ Len(bridgeCalls) + n <= MaxBridgeCalls
         /\ bridgeCalls' =
                bridgeCalls \o [i \in 1..n |-> FetchCall("hideFrame", NoData)]
         /\ UNCHANGED visible

\* The provider mounts: both effects run.
ProviderMount ==
    /\ ~providerMounted
    /\ Len(bridgeCalls) < MaxBridgeCalls
    /\ providerMounted' = TRUE
    /\ messageListeners' = AddEventListener(messageListeners, "handleNuiMessage")
    /\ bridgeCalls' = Append(bridgeCalls, FetchCall("uiReady", NoData))
    /\ uiReady' = TRUE
    /\ keydownListeners' = AddEventListener(keydownListeners, "handleKeyDown")
    /\ ev' = [op |-> "providerMount"]
    /\ UNCHANGED <<now, timers, lastActionTimes, rateLimitResponses, visible,
                   coordVars, dev, obsVars>>

\* The provider is torn down (its children are unmounted by then): the
\* cleanups of both effects run.
ProviderUnmount ==
    /\ providerMounted
    /\ ~mounted
    /\ providerMounted' = FALSE
    /\ messageListeners' = MessageCleanup
    /\ keydownListeners' = RemoveEventListener(keydownListeners, "handleKeyDown")
    /\ ev' = [op |-> "providerUnmount"]
    /\ UNCHANGED <<now, timers, storeVars, coordVars, bridgeCalls, dev,
                   obsVars>>

\* A key is pressed in the document: every registered keydown listener
\* runs handleKeyDown.
KeyDown(key) ==
    LET n == IF EscapePressed(key) THEN Len(keydownListeners) ELSE 0
    IN  /\ HideFrame(n)
        /\ ev' = [op |-> "keydown", key |-> key, hideFrames |-> n]
        /\ UNCHANGED <<now, timers, lastActionTimes, rateLimitResponses,
                       uiReady, coordVars, providerMounted, messageListeners,
                       keydownListeners, dev, obsVars>>

\* A consumer of the context calls hideFrame().
CallHideFrame ==
    /\ providerMounted
    /\ HideFrame(1)
    /\ ev' = [op |-> "hideFrame"]
    /\ UNCHANGED <<now, timers, lastActionTimes, rateLimitResponses, uiReady,
                   coordVars, providerMounted, messageListeners,
                   keydownListeners, dev, obsVars>>

\* A consumer of the context calls setVisible(v).
SetVisible(v) ==
    /\ providerMounted
    /\ visible' = v
    /\ ev' = [op |-> "setVisible", visible |-> v]
    /\ UNCHANGED <<now, timers, lastActionTimes, rateLimitResponses, uiReady,
                   coordVars, providerVars, obsVars>>

\* The fetch of a uiReady or hideFrame call settles with outcome o; the
\* caller drops what sendMessage settles to.
BridgeComplete(o) ==
    /\ bridgeCalls # <<>>
    /\ bridgeCalls' = Tail(bridgeCalls)
    /\ ev' = [op |-> "bridgeComplete", call |-> Head(bridgeCalls),
              outcome |-> o, result |-> SendMessage(o)]
    /\ UNCHANGED <<now, timers, storeVars, coordVars, providerMounted,
                   messageListeners, keydownListeners, dev, obsVars>>

\* createContext(null): what useContext yields with no provider above.
NullContext == [kind |-> "null"]

\* The value the provider passes down.
ContextValue == [kind |-> "value", visible |-> visible]

\* useContext(NuiContext) in a component that is, or is not, rendered
\* inside the provider.
UseContext(inside) == IF inside THEN ContextValue ELSE NullContext

\* Faulty variant: the missing context is handed to the caller.
UseNuiUnchecked(context) == Return(context)

\* useNui, given what useContext yielded.
UseNui(context) ==
    IF context.kind = "null"
    THEN Throw("useNui must be used within NuiProvider")
    ELSE Return(context)

\* A component calls useNui() while rendering, inside the provider's tree
\* or outside of it.
CallUseNui(inside) ==
    /\ inside => providerMounted
    /\ ev' = [op |-> "useNui", inside |-> inside,
              result |-> UseNui(UseContext(inside))]
    /\ UNCHANGED <<now, timers, storeVars, coordVars, providerVars, obsVars>>

\* ------------------------------------------------------------------- time
\* A timer that is due runs before the clock moves on.
TimerDue == \E t \in timers : t.due <= now

\* The auto-clear callback: setRateLimitMessage(null).
TimerFire ==
    /\ \E t \in timers :
        /\ t.due <= now
        /\ timers' = timers \ {t}
    /\ rateLimitMessage' = IF mounted THEN Null ELSE rateLimitMessage
    /\ messageShownAt' = IF mounted THEN NoTime ELSE messageShownAt
    /\ ev' = [op |-> "timer"]
    /\ UNCHANGED <<now, storeVars, mounted, isRateLimited, messageTimeoutRef,
                   effectPending, pendingCalls, providerVars, nHostCalls,
                   nActionFn, lastCallAt, allowedSinceCall, lastFnAt,
                   replyFresh, denialShownAt, unconsumed, arrivedUnobserved>>

Tick ==
    /\ now < MaxTime
    /\ ~TimerDue
    /\ now' = now + 1
    /\ ev' = [op |-> "tick"]
    /\ UNCHANGED <<timers, storeVars, coordVars, providerVars, obsVars>>

\* ------------------------------------------------------------------ Spec
\* The provider is mounted (its listeners registered, uiReady sent and
\* answered); the coordinator is not mounted yet.
Init ==
    /\ now = Cooldown
    /\ timers = {}
    /\ lastActionTimes = <<>>
    /\ rateLimitResponses = <<>>
    /\ visible = TRUE
    /\ uiReady = TRUE
    /\ mounted = FALSE
    /\ isRateLimited = FALSE
    /\ rateLimitMessage = Null
    /\ messageTimeoutRef = NullRef
    /\ effectPending = FALSE
    /\ pendingCalls = <<>>
    /\ providerMounted = TRUE
    /\ messageListeners = <<"handleNuiMessage">>
    /\ keydownListeners = <<"handleKeyDown">>
    /\ bridgeCalls = <<>>
    /\ dev = FALSE
    /\ nHostCalls = 0
    /\ nActionFn = 0
    /\ lastCallAt = NoTime
    /\ allowedSinceCall = FALSE
    /\ lastFnAt = NoTime
    /\ replyFresh = FALSE
    /\ denialShownAt = NoTime
    /\ messageShownAt = NoTime
    /\ unconsumed = FALSE
    /\ arrivedUnobserved = FALSE
    /\ ev = [op |-> "init"]

Next ==
    \/ Mount
    \/ Unmount
    \/ PerformAction
    \/ \E o \in FetchOutcomes : CompleteCheck(o)
    \/ \E id \in Ids, allowed \in BOOLEAN : HostReply(id, allowed)
    \/ ResponseEffect
    \/ TimerFire
    \/ Tick

Spec == Init /\ [][Next]_vars

\* ------------------------------------------------------------ SpecBridge
\* Nothing is mounted; the build is a development build or not.
InitBridge ==
    /\ now = Cooldown
    /\ timers = {}
    /\ lastActionTimes = <<>>
    /\ rateLimitResponses = <<>>
    /\ visible = FALSE
    /\ uiReady = FALSE
    /\ mounted = FALSE
    /\ isRateLimited = FALSE
    /\ rateLimitMessage = Null
    /\ messageTimeoutRef = NullRef
    /\ effectPending = FALSE
    /\ pendingCalls = <<>>
    /\ providerMounted = FALSE
    /\ messageListeners = <<>>
    /\ keydownListeners = <<>>
    /\ bridgeCalls = <<>>
    /\ dev \in BOOLEAN
    /\ nHostCalls = 0
    /\ nActionFn = 0
    /\ lastCallAt = NoTime
    /\ allowedSinceCall = FALSE
    /\ lastFnAt = NoTime
    /\ replyFresh = FALSE
    /\ denialShownAt = NoTime
    /\ messageShownAt = NoTime
    /\ unconsumed = FALSE
    /\ arrivedUnobserved = FALSE
    /\ ev = [op |-> "init"]

NextBridge ==
    \/ ProviderMount
    \/ ProviderUnmount
    \/ \E key \in Keys : KeyDown(key)
    \/ CallHideFrame
    \/ \E v \in BOOLEAN : SetVisible(v)
    \/ \E o \in FetchOutcomes : BridgeComplete(o)
    \/ \E id \in Ids, allowed \in BOOLEAN : HostReply(id, allowed)
    \/ \E inside \in BOOLEAN : CallUseNui(inside)

SpecBridge == InitBridge /\ [][NextBridge]_vars

\* ------------------------------------------------------------ properties
\* What the coordinator's clock check reads, stated from the stores alone.
WithinCooldown == now - GetLastActionTime(WatchedId) < Cooldown

CheckCall == FetchCall("checkRateLimit",
                       [actionId |-> WatchedId, cooldown |-> Cooldown])

\* C1: a performAction call made less than Cooldown after the previous
\* call, with no allowed reply for the id processed in between, issues no
\* checkRateLimit host call.
C1_NoSecondHostCall ==
    [][(/\ ev'.op = "performAction"
        /\ lastCallAt # NoTime
        /\ now - lastCallAt < Cooldown
        /\ ~allowedSinceCall)
       => nHostCalls' = nHostCalls]_vars

\* C2: any two invocations of actionFn for the id are at least Cooldown
\* apart.
C2_ActionsCooldownApart ==
    [][(nActionFn' = nActionFn + 1 /\ lastFnAt # NoTime)
       => now' - lastFnAt >= Cooldown]_vars

\* C3: a performAction call made while now - LastActionTime[id] < cooldown
\* displays the denial message (starting its auto-clear timer), issues no
\* host call, does not invoke actionFn and changes nothing else.
C3_LocalDenial ==
    [][(ev'.op = "performAction" /\ WithinCooldown)
       => /\ rateLimitMessage' = DenialMessage(WatchedId)
          /\ \E t \in timers' : t.due = now + MessageDuration
          /\ pendingCalls' = pendingCalls
          /\ nHostCalls' = nHostCalls
          /\ nActionFn' = nActionFn
          /\ UNCHANGED <<storeVars, isRateLimited>>]_vars

\* C3 witness: a call was just denied locally.
C3_Witness ==
    /\ ev.op = "performAction"
    /\ WithinCooldown
    /\ rateLimitMessage = DenialMessage(WatchedId)
    /\ nHostCalls = 1
    /\ pendingCalls = <<>>

\* C4: a performAction call that passes the local check issues exactly one
\* checkRateLimit call with payload {actionId, cooldown}; when that call
\* settles, whatever its outcome and whatever the host replied, actionFn is
\* invoked exactly once; nothing else issues a call or invokes actionFn.
C4_PassingCallRunsActionFn ==
    [][/\ (ev'.op = "performAction" /\ ~WithinCooldown)
          => /\ pendingCalls' = Append(pendingCalls, CheckCall)
             /\ nHostCalls' = nHostCalls + 1
             /\ nActionFn' = nActionFn
       /\ ev'.op = "complete"
          => /\ ev'.call = CheckCall
             /\ pendingCalls' = Tail(pendingCalls)
             /\ nActionFn' = nActionFn + 1
       /\ nActionFn' # nActionFn => ev'.op = "complete"
       /\ nHostCalls' # nHostCalls => ev'.op = "performAction"
       /\ nHostCalls' = Len(pendingCalls') + nActionFn']_vars

\* C4 witness: the host has denied the id, the host call itself failed, and
\* actionFn has run for every call issued.
C4_Witness ==
    /\ ev.op = "complete"
    /\ ev.outcome.rejects
    /\ WatchedId \in DOMAIN rateLimitResponses
    /\ ~rateLimitResponses[WatchedId]
    /\ isRateLimited
    /\ nActionFn = nHostCalls
    /\ nActionFn = MaxCalls

\* C5: right after the coordinator processed an allowed reply for its id,
\* LastActionTime[id] is the processing time, the rate-limited flag is
\* false, no message is displayed and no auto-clear timer is pending.
C5_AllowedReplyProcessed ==
    (ev.op = "effect" /\ ev.allowed)
    => /\ WatchedId \in DOMAIN lastActionTimes
       /\ lastActionTimes[WatchedId] = now
       /\ ~isRateLimited
       /\ rateLimitMessage = Null
       /\ timers = {}

\* C5 witness: an allowed reply was processed while a denial message was
\* displayed with its timer pending, later than the first call.
C5_Witness ==
    /\ ev.op = "effect"
    /\ ev.allowed
    /\ ev.hadTimer
    /\ now > Cooldown
    /\ lastActionTimes[WatchedId] = now
    /\ timers = {}

\* C6: after a denial reply for the id is processed the flag is true and
\* the denial message is displayed; with no performAction call (and no new
\* reply for the id, no unmount) since, the message stays until
\* MessageDuration after that display and is gone from then on.
C6_DenialClearsExactly ==
    /\ (ev.op = "effect" /\ ~ev.allowed)
       => /\ isRateLimited
          /\ rateLimitMessage = DenialMessage(WatchedId)
    /\ denialShownAt # NoTime
       => /\ now < denialShownAt + MessageDuration
             => rateLimitMessage = DenialMessage(WatchedId)
          /\ now > denialShownAt + MessageDuration
             => rateLimitMessage = Null

\* The steps in which a sendMessage call settles.
Settled == ev.op \in {"complete", "bridgeComplete"}

\* C7: sendMessage never raises: it always settles by returning, and it
\* returns null when the fetch rejects or the status is not 2xx.
C7_SendMessageNeverRaises ==
    Settled
    => /\ ev.result.kind = "return"
       /\ (ev.outcome.rejects \/ ~ev.outcome.ok) => ev.result.value = Null

\* C7 witness: a hideFrame call whose fetch rejected has settled to null.
C7_Witness ==
    /\ ev.op = "bridgeComplete"
    /\ ev.call.event = "hideFrame"
    /\ ev.outcome.rejects
    /\ ev.result = Return(Null)

\* C8: a 2xx response whose body is not valid JSON makes sendMessage settle
\* to the raw text of the body.
C8_ParseFailureYieldsText ==
    (Settled /\ ~ev.outcome.rejects /\ ev.outcome.ok
        /\ ev.outcome.body \notin JsonBodies)
    => ev.result = Return(ev.outcome.body)

\* C9: hideFrame in a development build sets visibility to false and
\* issues no host call; otherwise it issues exactly one hideFrame host call
\* and leaves visibility alone. While the provider is mounted an Escape
\* key press runs hideFrame exactly once; no other key runs it.
C9_HideFrame ==
    [][/\ (\/ ev'.op = "hideFrame"
           \/ ev'.op = "keydown" /\ ev'.key = "Escape" /\ providerMounted)
          => IF dev
             THEN visible' = FALSE /\ bridgeCalls' = bridgeCalls
             ELSE /\ bridgeCalls' =
                        Append(bridgeCalls, FetchCall("hideFrame", NoData))
                  /\ visible' = visible
       /\ (ev'.op = "keydown" /\ ev'.key = "Escape" /\ providerMounted)
          => ev'.hideFrames = 1
       /\ (ev'.op = "keydown" /\ ev'.key # "Escape")
          => ev'.hideFrames = 0 /\ UNCHANGED <<visible, bridgeCalls>>]_vars

\* C9 witness: outside a development build, Escape was pressed while the
\* frame was visible: one hideFrame call is in flight and the frame is
\* still visible.
C9_Witness ==
    /\ ev.op = "keydown"
    /\ ev.key = "Escape"
    /\ ~dev
    /\ providerMounted
    /\ visible
    /\ bridgeCalls = <<FetchCall("hideFrame", NoData)>>

\* C10: mounting the provider registers the message listener, issues one
\* uiReady call and sets uiReady; while it is mounted exactly one listener
\* is registered; after teardown none is, and a host message that arrives
\* then changes nothing in the store.
C10_ListenerLifetime ==
    [][/\ ev'.op = "providerMount"
          => /\ bridgeCalls' = Append(bridgeCalls, FetchCall("uiReady", NoData))
             /\ uiReady'
       /\ providerMounted' => messageListeners' = <<"handleNuiMessage">>
       /\ ~providerMounted' => messageListeners' = <<>>
       /\ (ev'.op = "hostReply" /\ ~providerMounted)
          => UNCHANGED storeVars]_vars

\* C10 witness: the provider was mounted and torn down, and a host message
\* arrived after the teardown.
C10_Witness ==
    /\ ev.op = "hostReply"
    /\ ~providerMounted
    /\ uiReady
    /\ rateLimitResponses = <<>>

\* C11: useNui called outside a NuiProvider raises at once and returns
\* nothing to its caller; inside a provider it returns the provider's value.
C11_UseNuiOutsideProviderRaises ==
    ev.op = "useNui"
    => IF ev.inside
       THEN ev.result.kind = "return" /\ ev.result.value.kind = "value"
       ELSE ev.result = Throw("useNui must be used within NuiProvider")

\* C11 witness: useNui was called outside the provider's tree while a
\* provider was mounted elsewhere.
C11_Witness ==
    /\ ev.op = "useNui"
    /\ ~ev.inside
    /\ providerMounted
    /\ ev.result.kind = "throw"

\* C12: LastActionTime[id] changes only in the step that processes a
\* newly arrived reply for that id whose value is allowed: not in a
\* performAction call, not for a denial, not because of a reply for another
\* id, a timer, a mount or an unmount.
C12_AdvancedOnlyOnAllowedReply ==
    [][lastActionTimes' # lastActionTimes
       => /\ ev'.op = "effect"
          /\ ev'.allowed
          /\ ev'.fresh
          /\ lastActionTimes' = SetLastActionTime(WatchedId, now)]_vars

\* C13: a reply stored for the id causes at most one reaction (a
\* LastActionTime update, or a denial display with its timer) in one
\* coordinator instance, also when the response map changes afterwards
\* because of replies for other ids.
C13_ReplyConsumedOnce ==
    [][ev'.op = "effect" => unconsumed]_vars

\* C14: a reply for the id that arrived while no coordinator watching the
\* id was mounted causes no reaction in any instance, including one mounted
\* later: no LastActionTime update, no flag, no denial message.
C14_UnobservedReplyIgnored ==
    [][arrivedUnobserved
       => /\ ev'.op # "effect"
          /\ lastActionTimes' = lastActionTimes
          /\ ~isRateLimited'
          /\ (rateLimitMessage' # rateLimitMessage
                => ev'.op \in {"performAction", "timer", "unmount", "mount"})
      ]_vars

\* C15: the coordinator has at most one outstanding auto-clear timer; while
\* a message is displayed the only timer is the one of the most recent
\* display (local or host denial), due MessageDuration after that display,
\* so no timer of an earlier display is left to clear the message.
C15_OneTimerOfLatestDisplay ==
    /\ Cardinality(timers) <= 1
    /\ rateLimitMessage # Null
          => timers = {[h |-> messageTimeoutRef,
                        due |-> messageShownAt + MessageDuration]}

\* C15 witness: a host denial is displayed while the timer of an earlier
\* display was still pending, and one timer is outstanding.
C15_Witness ==
    /\ ev.op = "effect"
    /\ ~ev.allowed
    /\ ev.hadTimer
    /\ Cardinality(timers) = 1
    /\ messageShownAt = now

\* C16: teardown cancels the instance's message timer: while no coordinator
\* is mounted no auto-clear timer is outstanding, and no timer fires after
\* the unmount, also when a performAction call was still awaiting the host.
C16_TeardownCancelsTimer ==
    /\ ~mounted => timers = {}
    /\ ev.op = "timer" => mounted

\* C16 witness: the coordinator was unmounted while its timer was pending
\* and a performAction call was awaiting the host call.
C16_Witness ==
    /\ ev.op = "unmount"
    /\ ev.hadTimer
    /\ pendingCalls # <<>>
    /\ timers = {}

\* C17: only the most recent reply for an id is observable: the response
\* map holds one value per id, a reply overwrites the value stored for its
\* id, and once the coordinator has processed the replies its rate-limited
\* flag is the negation of the value stored for its id.
C17_LatestReplyObservable ==
    /\ DOMAIN rateLimitResponses \subseteq Ids
    /\ (ev.op = "hostReply" /\ Len(messageListeners) > 0)
          => /\ ev.id \in DOMAIN rateLimitResponses
             /\ rateLimitResponses[ev.id] = ev.allowed
    /\ (mounted /\ ~effectPending /\ WatchedId \in DOMAIN rateLimitResponses)
          => isRateLimited = ~rateLimitResponses[WatchedId]

\* C17 witness: a denial is processed after an earlier allowed reply for
\* the same id had been processed, and the flag follows the later reply.
C17_Witness ==
    /\ ev.op = "effect"
    /\ ev.fresh
    /\ ~ev.allowed
    /\ WatchedId \in DOMAIN lastActionTimes
    /\ ~effectPending
    /\ isRateLimited

\* C18: a performAction call that passes the local check clears the
\* message and cancels the timer in the step that issues the host call;
\* from then on the message of the instance becomes non-null only in a step
\* that processes a host reply or in a locally denied performAction call.
C18_PassingCallClearsMessage ==
    [][/\ (ev'.op = "performAction" /\ ~WithinCooldown)
          => /\ rateLimitMessage' = Null
             /\ timers' = {}
             /\ pendingCalls' = Append(pendingCalls, CheckCall)
       /\ (mounted /\ rateLimitMessage = Null /\ rateLimitMessage' # Null)
          => \/ ev'.op = "performAction" /\ WithinCooldown
             \/ ev'.op = "effect" /\ ~ev'.allowed]_vars

\* C18 witness: a passing call was made while a message was displayed; the
\* message and its timer are gone and the host call is pending.
C18_Witness ==
    /\ ev.op = "performAction"
    /\ ~ev.denied
    /\ ev.cleared
    /\ rateLimitMessage = Null
    /\ timers = {}
    /\ pendingCalls # <<>>

\* C19: while the mounted coordinator displays a message, the timer held in
\* its timer reference is pending and due within MessageDuration, so the
\* message is cleared at the latest when that timer fires.
C19_DisplayedMessageHasTimer ==
    (mounted /\ rateLimitMessage # Null)
    => \E t \in timers :
          /\ t.h = messageTimeoutRef
          /\ now <= t.due
          /\ t.due <= now + MessageDuration

\* C19 witness: a host denial is displayed and its timer is due now.
C19_Witness ==
    /\ mounted
    /\ isRateLimited
    /\ rateLimitMessage = DenialMessage(WatchedId)
    /\ \E t \in timers : t.h = messageTimeoutRef /\ t.due = now
    /\ now > messageShownAt

\* C20: performAction decides on the clock and LastActionTime[id] alone: it
\* never changes the rate-limited flag, which changes only when a reply is
\* processed; whatever the flag, a call outside the cooldown issues the host
\* call, a call inside it does not, and every issued call ends in actionFn.
C20_FlagNotConsulted ==
    [][/\ (mounted /\ mounted' /\ isRateLimited' # isRateLimited)
          => ev'.op = "effect"
       /\ ev'.op = "performAction"
          => /\ isRateLimited' = isRateLimited
             /\ IF WithinCooldown
                THEN pendingCalls' = pendingCalls
                ELSE pendingCalls' = Append(pendingCalls, CheckCall)
       /\ ev'.op = "complete" => nActionFn' = nActionFn + 1]_vars

\* C20 witness: the flag is set after a host denial and a performAction
\* call has just passed the local check and issued the host call.
C20_Witness ==
    /\ ev.op = "performAction"
    /\ ~ev.denied
    /\ isRateLimited
    /\ WatchedId \in DOMAIN rateLimitResponses
    /\ ~rateLimitResponses[WatchedId]
    /\ Len(pendingCalls) > 0

====
